---------------------------- MODULE Spec2Model ----------------------------
(***************************************************************************)
(* Face registry service: the request handlers of src/api/routes.py over   *)
(* the identity store (models/database.py), the matching engine            *)
(* (models/face_recognizer.py) and the liveness fusion                     *)
(* (models/anti_spoofing.py).  The three collaborators are not part of the *)
(* source tree at hand; they are modelled from sections 4.1-4.3 of the     *)
(* specification.  The handlers are modelled from routes.py.               *)
(*                                                                         *)
(* Requests are served concurrently over one durable store (the database   *)
(* file of config.py, shared by every worker of the service).  A handler   *)
(* holds no lock and no transaction across its store calls, so every store *)
(* call is one atomic step of the store and the requests of other workers  *)
(* may run between two store calls of one handler; inside one worker       *)
(* update_face suspends between its two store calls, at the await of       *)
(* routes.py line 365.                                                     *)
(*                                                                         *)
(* Similarities, thresholds and sub-scores are fixed-point numbers:        *)
(* SimOne and ScoreOne stand for 1.0.                                      *)
(***************************************************************************)
EXTENDS Integers, Sequences, FiniteSets, TLC

VARIABLES
    faces,     \* the store's table: a set of rows
    nextId,    \* the store's id counter
    clock,     \* the store's clock (timestamp of the latest mutation)
    pc,        \* per request slot: where its handler stands
    req,       \* per request slot: the request being served
    loc,       \* per request slot: the handler's local variables
    resp,      \* per request slot: the response sent
    calls,     \* number of requests issued so far
    idLog,     \* history: the ids the store assigned, in order
    faces0,    \* history: the table the behaviour started from
    log,       \* history: the add_face calls answered, in order
    live       \* the anti_spoofing endpoint: analyzer result, fused verdict, response

vars == <<faces, nextId, clock, pc, req, loc, resp, calls, idLog, faces0, log, live>>

---------------------------------------------------------------------------
(* Bounds of the model *)

MaxCalls == 3      \* requests issued in one behaviour
NumProcs == 2      \* requests in flight at once
MaxFaces == 2      \* faces detected in one image
MaxRows == 2       \* rows of an initial store of the matching scenarios

Procs == 1..NumProcs

---------------------------------------------------------------------------
(* Values *)

UserIds == {"u1", "u2"}
Names == {"Ann", "Bob"}
NoName == "None"            \* Python None for an optional string
NoEmb == << >>              \* Python None for an optional embedding
NoRow == [none |-> TRUE]    \* Python None for an optional row / result

\* The store-wide embedding dimension, fixed at store initialisation.
Dim == 2

\* Similarity 1.0 in the fixed-point unit similarities and thresholds are held in.
SimOne == 50

\* Embeddings: integer vectors whose norms are whole numbers, so that the
\* cosine similarity of any two of them is exact in units of 1/SimOne.
E1 == <<1, 0>>
E2 == <<0, 1>>
EBad == <<1, 0, 0>>         \* an embedding of another dimension than the store's
RichEmbeddings == {<<1, 0>>, <<0, 1>>, <<-1, 0>>, <<3, 4>>, <<4, 3>>, <<0, 0>>}

RECURSIVE Dot(_, _)
Dot(a, b) == IF a = << >> \/ b = << >> THEN 0
             ELSE a[1] * b[1] + Dot(Tail(a), Tail(b))

\* np.linalg.norm on the vectors above (whole-number norms).
Norm(a) == CHOOSE n \in 0..(Dot(a, a) + 1) : n * n = Dot(a, a)


---------------------------------------------------------------------------
(* IdentityStore (models/database.py), from section 4.1 of the specification. *)
(* Every operation is one atomic step of the store.                            *)

HasUser(tbl, u) == \E r \in tbl : r.user_id = u

\* Get(user_id) -> record?: nothing if absent, never an error.
db_get_face(tbl, u) ==
    IF HasUser(tbl, u) THEN CHOOSE r \in tbl : r.user_id = u ELSE NoRow

\* The rows of tbl in ascending id order.
RECURSIVE SeqById(_)
SeqById(tbl) ==
    IF tbl = {} THEN << >>
    ELSE LET r == CHOOSE x \in tbl : \A y \in tbl : x.id <= y.id
         IN  <<r>> \o SeqById(tbl \ {r})

\* ListEmbeddings(): the (user_id, embedding) pairs, ordered by ascending id.
db_get_all_embeddings(tbl) ==
    LET s == SeqById(tbl)
    IN  [k \in 1..Len(s) |-> [user_id |-> s[k].user_id, embedding |-> s[k].embedding]]

\* Count(): number of live records.
db_get_user_count(tbl) == Cardinality(tbl)

\* The store as a record, and the outcome of a mutation: the result handed to
\* the caller (success, kind, id) and the store afterwards.
Store(tbl, nid, clk) == [faces |-> tbl, nextId |-> nid, clock |-> clk]

Outcome(ok, kind, id, st) == [success |-> ok, kind |-> kind, id |-> id, store |-> st]

\* Add: Conflict if user_id has a live record, DimensionMismatch if the
\* embedding's length is not the store's, ValidationError if user_id is empty;
\* otherwise assigns the next id and sets created_at = updated_at = now.
db_add_face(st, u, emb, name) ==
    IF HasUser(st.faces, u) THEN Outcome(FALSE, "Conflict", 0, st)
    ELSE IF Len(emb) # Dim THEN Outcome(FALSE, "DimensionMismatch", 0, st)
    ELSE IF u = "" THEN Outcome(FALSE, "ValidationError", 0, st)
    ELSE LET now == st.clock + 1
             row == [id |-> st.nextId, user_id |-> u, name |-> name,
                     embedding |-> emb, metadata |-> NoName,
                     created_at |-> now, updated_at |-> now]
         IN  Outcome(TRUE, "ok", st.nextId,
                     Store(st.faces \cup {row}, st.nextId + 1, now))

\* A faulty Update: a torn write, which stores the embedding without the name
\* and the timestamp.
db_update_face_torn(st, u, emb, name) ==
    IF ~HasUser(st.faces, u) THEN Outcome(FALSE, "NotFound", 0, st)
    ELSE IF emb # NoEmb /\ Len(emb) # Dim
         THEN Outcome(FALSE, "DimensionMismatch", 0, st)
    ELSE LET old == db_get_face(st.faces, u)
             new == [old EXCEPT !.embedding = IF emb = NoEmb THEN @ ELSE emb]
         IN  Outcome(TRUE, "ok", old.id,
                     Store((st.faces \ {old}) \cup {new}, st.nextId, st.clock + 1))

\* Update: NotFound if absent; DimensionMismatch as in Add when an embedding is
\* supplied; each supplied field overwrites, omitted fields stay; updated_at is
\* refreshed in every case.
db_update_face(st, u, emb, name) ==
    IF ~HasUser(st.faces, u) THEN Outcome(FALSE, "NotFound", 0, st)
    ELSE IF emb # NoEmb /\ Len(emb) # Dim
         THEN Outcome(FALSE, "DimensionMismatch", 0, st)
    ELSE LET now == st.clock + 1
             old == db_get_face(st.faces, u)
             new == [old EXCEPT !.embedding = IF emb = NoEmb THEN @ ELSE emb,
                                !.name = IF name = NoName THEN @ ELSE name,
                                !.updated_at = now]
         IN  Outcome(TRUE, "ok", old.id,
                     Store((st.faces \ {old}) \cup {new}, st.nextId, now))

\* Delete: NotFound if absent; otherwise removes the row and frees user_id.
db_delete_face(st, u) ==
    IF ~HasUser(st.faces, u) THEN Outcome(FALSE, "NotFound", 0, st)
    ELSE LET old == db_get_face(st.faces, u)
         IN  Outcome(TRUE, "ok", old.id,
                     Store(st.faces \ {old}, st.nextId, st.clock + 1))

---------------------------------------------------------------------------
(* MatchingEngine (models/face_recognizer.py), from section 4.2. *)

\* Cosine similarity in units of 1/SimOne; -1 when either vector has zero norm.
Similarity(q, c) ==
    IF Norm(q) = 0 \/ Norm(c) = 0 THEN -SimOne
    ELSE (Dot(q, c) * SimOne) \div (Norm(q) * Norm(c))

\* The scan over the candidates from position i on: best is the index of the
\* best candidate so far; a later candidate replaces it only when strictly
\* more similar.
RECURSIVE BestFrom(_, _, _, _)
BestFrom(q, cands, i, best) ==
    IF i > Len(cands) THEN best
    ELSE IF Similarity(q, cands[i].embedding) > Similarity(q, cands[best].embedding)
         THEN BestFrom(q, cands, i + 1, i)
         ELSE BestFrom(q, cands, i + 1, best)

\* Match(query, candidates, threshold): nothing for no candidates, a
\* DimensionMismatch error when the query's length is not the candidates',
\* otherwise the best candidate with is_match = (similarity >= threshold).
recognize(q, cands, threshold) ==
    IF Len(cands) = 0 THEN NoRow
    ELSE IF \E k \in 1..Len(cands) : Len(cands[k].embedding) # Len(q)
         THEN [error |-> "DimensionMismatch"]
    ELSE LET b == BestFrom(q, cands, 2, 1)
             sim == Similarity(q, cands[b].embedding)
         IN  [user_id |-> cands[b].user_id, similarity |-> sim,
              is_match |-> (sim >= threshold)]

---------------------------------------------------------------------------
(* Requests and responses of the HTTP layer (src/api/routes.py). *)

\* An uploaded file, by what the collaborators make of it: "none" no file was
\* sent, "bad" load_image_from_bytes raises, "fail" the recognizer raises,
\* "image" the recognizer returns the embeddings of the detected faces.
NoFile == [kind |-> "none", faces |-> << >>]
BadImage == [kind |-> "bad", faces |-> << >>]
FailImage == [kind |-> "fail", faces |-> << >>]
Img(fs) == [kind |-> "image", faces |-> fs]

Request(op, u, name, file, th) ==
    [op |-> op, user_id |-> u, name |-> name, file |-> file, threshold |-> th]

NoReq == Request("none", "", NoName, NoFile, 0)

Resp(code, ok, body) == [code |-> code, success |-> ok, body |-> body]

NoResp == Resp(0, FALSE, 0)

\* The handler's locals, and what it observed of the store (for the properties):
\* kind is the store's verdict on the request's mutation, before and after the
\* table before and after it, pre and post the user_id's row in them, snapTbl the table when the snapshot was taken,
\* snapCalls the number of get_all_embeddings calls, lookTbl the table at each
\* match's name lookup.
LocInit == [existing |-> NoRow, snapshot |-> << >>, i |-> 0, matches |-> << >>,
            kind |-> "none", pre |-> NoRow, post |-> NoRow, before |-> {}, after |-> {},
            snapTbl |-> {}, snapCalls |-> 0, lookTbl |-> << >>]

\* threshold: float = Query(0.5, ge=0.0, le=1.0)
DefaultThreshold == SimOne \div 2

CurStore == Store(faces, nextId, clock)

SetStore(st) == /\ faces' = st.faces
                /\ nextId' = st.nextId
                /\ clock' = st.clock

StoreUnchanged == UNCHANGED <<faces, nextId, clock>>

\* The handler of slot p ends with response r; l are its locals at the end.
Finish(p, r, l) == /\ pc' = [pc EXCEPT ![p] = "done"]
                   /\ resp' = [resp EXCEPT ![p] = r]
                   /\ loc' = [loc EXCEPT ![p] = l]

\* A request arrives and is given to the lowest free slot (slots are alike).
CallFrom(p, R) ==
    /\ pc[p] = "idle"
    /\ \A o \in Procs : o < p => pc[o] # "idle"
    /\ calls < MaxCalls
    /\ \E r \in R :
         /\ req' = [req EXCEPT ![p] = r]
         /\ pc' = [pc EXCEPT ![p] = r.op]
    /\ calls' = calls + 1
    /\ UNCHANGED <<faces, nextId, clock, loc, resp, idLog, faces0, log, live>>

\* The response has been delivered; the slot is free again.
Return(p) ==
    /\ pc[p] = "done"
    /\ pc' = [pc EXCEPT ![p] = "idle"]
    /\ req' = [req EXCEPT ![p] = NoReq]
    /\ loc' = [loc EXCEPT ![p] = LocInit]
    /\ resp' = [resp EXCEPT ![p] = NoResp]
    /\ UNCHANGED <<faces, nextId, clock, calls, idLog, faces0, log, live>>

\* The same, keeping the answered add_face call in the history.
ReturnLogged(p) ==
    /\ pc[p] = "done"
    /\ pc' = [pc EXCEPT ![p] = "idle"]
    /\ req' = [req EXCEPT ![p] = NoReq]
    /\ loc' = [loc EXCEPT ![p] = LocInit]
    /\ resp' = [resp EXCEPT ![p] = NoResp]
    /\ log' = Append(log, [req |-> req[p], resp |-> resp[p], kind |-> loc[p].kind,
                            unchanged |-> (loc[p].after = loc[p].before)])
    /\ UNCHANGED <<faces, nextId, clock, calls, idLog, faces0, live>>

---------------------------------------------------------------------------
(* POST /add_face *)

\* A faulty add_face: the store's result is not checked.
AddResponseUnchecked(result) == Resp(200, TRUE, result.id)

\* if not result['success']: raise HTTPException(status_code=409, ...)
AddResponse(result) ==
    IF ~result.success THEN Resp(409, FALSE, 0) ELSE Resp(200, TRUE, result.id)

add_face(p) ==
    /\ pc[p] = "add"
    /\ LET r == req[p] IN
       IF r.user_id = ""
       THEN \* user_id: str = Form(...): a required form field
            Finish(p, Resp(422, FALSE, 0), loc[p]) /\ StoreUnchanged /\ UNCHANGED idLog
       ELSE IF r.file.kind = "bad"
       THEN Finish(p, Resp(400, FALSE, 0), loc[p]) /\ StoreUnchanged /\ UNCHANGED idLog
       ELSE IF r.file.kind = "fail"
       THEN Finish(p, Resp(500, FALSE, 0), loc[p]) /\ StoreUnchanged /\ UNCHANGED idLog
       ELSE IF r.file.faces = << >>
       THEN Finish(p, Resp(400, FALSE, 0), loc[p]) /\ StoreUnchanged /\ UNCHANGED idLog
       ELSE LET embedding == r.file.faces[1]
                result == db_add_face(CurStore, r.user_id, embedding, r.name)
            IN  /\ SetStore(result.store)
                /\ idLog' = IF result.success THEN Append(idLog, result.id) ELSE idLog
                /\ Finish(p, AddResponse(result),
                          [loc[p] EXCEPT !.kind = result.kind, !.before = faces,
                                         !.after = result.store.faces,
                                         !.pre = db_get_face(faces, r.user_id),
                                         !.post = db_get_face(result.store.faces, r.user_id)])
    /\ UNCHANGED <<req, calls, faces0, log, live>>

---------------------------------------------------------------------------
(* GET /get_face/{user_id} *)

get_face(p) ==
    /\ pc[p] = "get"
    /\ LET face == db_get_face(faces, req[p].user_id) IN
       IF face = NoRow
       THEN Finish(p, Resp(200, FALSE, NoRow), [loc[p] EXCEPT !.before = faces])
       ELSE Finish(p, Resp(200, TRUE, face), [loc[p] EXCEPT !.before = faces])
    /\ UNCHANGED <<faces, nextId, clock, req, calls, idLog, faces0, log, live>>

---------------------------------------------------------------------------
(* GET /health: the count of registered users *)

health_check(p) ==
    /\ pc[p] = "count"
    /\ Finish(p, Resp(200, TRUE, db_get_user_count(faces)),
              [loc[p] EXCEPT !.before = faces])
    /\ UNCHANGED <<faces, nextId, clock, req, calls, idLog, faces0, log, live>>

---------------------------------------------------------------------------
(* DELETE /delete_face/{user_id} *)

\* A faulty delete_face: the store's result is passed on as a normal response.
DeleteResponsePassed(result) == Resp(200, result.success, 0)

\* if not result['success']: raise HTTPException(status_code=404, ...)
DeleteResponse(result) ==
    IF ~result.success THEN Resp(404, FALSE, 0) ELSE Resp(200, TRUE, 0)

delete_face(p) ==
    /\ pc[p] = "delete"
    /\ LET result == db_delete_face(CurStore, req[p].user_id) IN
         /\ SetStore(result.store)
         /\ Finish(p, DeleteResponse(result),
                   [loc[p] EXCEPT !.kind = result.kind, !.before = faces,
                                  !.after = result.store.faces,
                                  !.pre = db_get_face(faces, req[p].user_id),
                                  !.post = db_get_face(result.store.faces, req[p].user_id)])
    /\ UNCHANGED <<req, calls, idLog, faces0, log, live>>

---------------------------------------------------------------------------
(* POST /update_face *)

\* A faulty update_face: a missing name defaults to the user_id.
UpdateNameDefaulted(r) == IF r.name = NoName THEN r.user_id ELSE r.name

\* name=name in the db.update_face call
UpdateName(r) == r.name

\* existing = db.get_face(user_id); 404 if None
update_face_check(p) ==
    /\ pc[p] = "update"
    /\ LET r == req[p]
           existing == db_get_face(faces, r.user_id)
       IN  IF r.user_id = ""
           THEN Finish(p, Resp(422, FALSE, 0), loc[p])
           ELSE IF existing = NoRow
           THEN Finish(p, Resp(404, FALSE, 0), loc[p])
           ELSE /\ pc' = [pc EXCEPT ![p] = "update_apply"]
                /\ loc' = [loc EXCEPT ![p].existing = existing]
                /\ UNCHANGED resp
    /\ UNCHANGED <<faces, nextId, clock, req, calls, idLog, faces0, log, live>>

\* the optional new embedding, then result = db.update_face(...), whose
\* success flag and message are passed on in a normal response
update_face_apply(p) ==
    /\ pc[p] = "update_apply"
    /\ LET r == req[p] IN
       IF r.file.kind = "bad"
       THEN Finish(p, Resp(400, FALSE, 0), loc[p]) /\ StoreUnchanged
       ELSE IF r.file.kind = "fail"
       THEN Finish(p, Resp(500, FALSE, 0), loc[p]) /\ StoreUnchanged
       ELSE IF r.file.kind = "image" /\ r.file.faces = << >>
       THEN Finish(p, Resp(400, FALSE, 0), loc[p]) /\ StoreUnchanged
       ELSE LET embedding == IF r.file.kind = "none" THEN NoEmb ELSE r.file.faces[1]
                result == db_update_face(CurStore, r.user_id, embedding, UpdateName(r))
            IN  /\ SetStore(result.store)
                /\ Finish(p, Resp(200, result.success, 0),
                          [loc[p] EXCEPT !.kind = result.kind, !.before = faces,
                                         !.after = result.store.faces,
                                         !.pre = db_get_face(faces, r.user_id),
                                         !.post = db_get_face(result.store.faces, r.user_id)])
    /\ UNCHANGED <<req, calls, idLog, faces0, log, live>>

---------------------------------------------------------------------------
(* POST /recognize_face *)

\* A faulty recognize_face: the candidates are fetched anew for every face.
MatchCandidatesRefetched(p) == db_get_all_embeddings(faces)

\* recognizer.recognize(query_embedding, db_embeddings, ...): the snapshot
MatchCandidates(p) == loc[p].snapshot

\* A faulty recognize_face: the request's threshold is not passed on.
MatchThresholdDefault(r) == DefaultThreshold

\* threshold=threshold
MatchThreshold(r) == r.threshold

\* A faulty recognize_face: the name is left out when the record is found.
MatchNameOmitted(db_face) == NoName

\* name = db_face['name'] if db_face else None
MatchName(db_face) == IF db_face # NoRow THEN db_face.name ELSE NoName

\* up to db_embeddings = db.get_all_embeddings() and the two early returns
recognize_face_snapshot(p) ==
    /\ pc[p] = "recognize"
    /\ LET r == req[p]
           db_embeddings == db_get_all_embeddings(faces)
       IN  IF r.file.kind = "bad"
           THEN Finish(p, Resp(400, FALSE, << >>), loc[p])
           ELSE IF r.file.kind = "fail"
           THEN Finish(p, Resp(500, FALSE, << >>), loc[p])
           ELSE IF r.file.faces = << >>
           THEN Finish(p, Resp(200, TRUE, << >>), loc[p])
           ELSE IF db_embeddings = << >>
           THEN Finish(p, Resp(200, TRUE, << >>),
                       [loc[p] EXCEPT !.snapTbl = faces, !.snapCalls = @ + 1])
           ELSE /\ pc' = [pc EXCEPT ![p] = "recognize_match"]
                /\ loc' = [loc EXCEPT ![p].snapshot = db_embeddings, ![p].i = 1,
                                      ![p].snapTbl = faces, ![p].snapCalls = @ + 1]
                /\ UNCHANGED resp
    /\ UNCHANGED <<faces, nextId, clock, req, calls, idLog, faces0, log, live>>

\* one turn of "for face in face_data", and the return after the last
recognize_face_match(p) ==
    /\ pc[p] = "recognize_match"
    /\ LET r == req[p]
           l == loc[p]
           query_embedding == r.file.faces[l.i]
           result == recognize(query_embedding, MatchCandidates(p), MatchThreshold(r))
       IN  IF "error" \in DOMAIN result
           THEN Finish(p, Resp(500, FALSE, << >>), l)
           ELSE LET matches ==
                      IF result = NoRow THEN l.matches
                      ELSE Append(l.matches,
                                  [user_id |-> result.user_id,
                                   name |-> MatchName(db_get_face(faces, result.user_id)),
                                   similarity |-> result.similarity,
                                   is_match |-> result.is_match])
                    l2 == [l EXCEPT !.matches = matches, !.i = @ + 1,
                                    !.lookTbl = IF result = NoRow THEN @
                                                ELSE Append(@, faces)]
                IN  IF l.i = Len(r.file.faces)
                    THEN Finish(p, Resp(200, TRUE, matches), l2)
                    ELSE /\ loc' = [loc EXCEPT ![p] = l2]
                         /\ UNCHANGED <<pc, resp>>
    /\ UNCHANGED <<faces, nextId, clock, req, calls, idLog, faces0, log, live>>

---------------------------------------------------------------------------
(* LivenessFusion (models/anti_spoofing.py), from section 4.3. *)

\* Sub-score 1.0 in the fixed-point unit the sub-scores are held in.
ScoreOne == 24

Scores == {0, ScoreOne \div 2, ScoreOne}

CheckNames == {"texture", "reflection", "color", "blur"}

\* The analyzers' results: any subset of the four checks, each with a sub-score
\* and its boolean sub-verdict (is_real, is_screen, is_natural, is_sharp).
CheckSets ==
    UNION {[S -> [score : Scores, flag : BOOLEAN]] : S \in SUBSET CheckNames}

RECURSIVE SumScores(_, _)
SumScores(checks, S) ==
    IF S = {} THEN 0
    ELSE LET c == CHOOSE x \in S : TRUE
         IN  checks[c].score + SumScores(checks, S \ {c})

\* confidence: the mean of the sub-scores present, 0 when none is.
Confidence(checks) ==
    IF DOMAIN checks = {} THEN 0
    ELSE SumScores(checks, DOMAIN checks) \div Cardinality(DOMAIN checks)

IsScreen(checks) == "reflection" \in DOMAIN checks /\ checks["reflection"].flag

\* Fuse(checks): is_live = confidence >= fusion_threshold and reflection.is_screen
\* is not true.
check_liveness(checks, fusion_threshold) ==
    [is_live |-> Confidence(checks) >= fusion_threshold /\ ~IsScreen(checks),
     confidence |-> Confidence(checks),
     checks |-> checks]

---------------------------------------------------------------------------
(* POST /anti_spoofing *)

\* A faulty check_anti_spoofing: the verdict is taken from the confidence alone.
LivenessResponseByConfidence(result) ==
    [code |-> 200, success |-> TRUE, is_live |-> result.confidence >= ScoreOne \div 2,
     confidence |-> result.confidence, checks |-> result.checks]

\* AntiSpoofingResponse(success=True, is_live=result['is_live'],
\*                      confidence=result['confidence'], checks=checks)
LivenessResponse(result) ==
    [code |-> 200, success |-> TRUE, is_live |-> result.is_live,
     confidence |-> result.confidence, checks |-> result.checks]

NoChecks == [c \in {} |-> 0]

LiveError(code) == [code |-> code, success |-> FALSE, is_live |-> FALSE,
                    confidence |-> 0, checks |-> NoChecks]

\* The endpoint's state: the request (file kind, what the analyzers will find in
\* the face), the fused verdict and the response.
LiveIdle(th) == [pc |-> "idle", threshold |-> th, kind |-> "none",
                 checks |-> NoChecks, result |-> NoRow, resp |-> NoRow]

\* A request arrives: the image is unreadable ("bad"), the detector raises
\* ("fail"), no face is found ("noface"), or a face is found ("image").
anti_spoofing_call ==
    /\ live.pc = "idle"
    /\ \E k \in {"bad", "fail", "noface", "image"} :
         \E cs \in (IF k = "image" THEN CheckSets ELSE {NoChecks}) :
            live' = [live EXCEPT !.pc = "called", !.kind = k, !.checks = cs]
    /\ UNCHANGED <<faces, nextId, clock, pc, req, loc, resp, calls, idLog, faces0, log>>

check_anti_spoofing ==
    /\ live.pc = "called"
    /\ IF live.kind = "bad"
       THEN live' = [live EXCEPT !.pc = "done", !.resp = LiveError(400)]
       ELSE IF live.kind = "fail"
       THEN live' = [live EXCEPT !.pc = "done", !.resp = LiveError(500)]
       ELSE IF live.kind = "noface"
       THEN live' = [live EXCEPT !.pc = "done", !.resp = LiveError(200)]
       ELSE LET result == check_liveness(live.checks, live.threshold)
            IN  live' = [live EXCEPT !.pc = "done", !.result = result,
                                     !.resp = LivenessResponse(result)]
    /\ UNCHANGED <<faces, nextId, clock, pc, req, loc, resp, calls, idLog, faces0, log>>

anti_spoofing_return ==
    /\ live.pc = "done"
    /\ live' = LiveIdle(live.threshold)
    /\ UNCHANGED <<faces, nextId, clock, pc, req, loc, resp, calls, idLog, faces0, log>>

---------------------------------------------------------------------------
(* The requests issued, and the specifications. *)

FaceSeqs(E, n) == UNION {[1..k -> E] : k \in 0..n}

\* Uploads that end a handler before it reaches the store: unreadable, failing
\* in the recognizer, without a face.
FailingImages == {BadImage, FailImage, Img(<< >>)}

\* Uploads for add_face and update_face, which use the first face only: a
\* face, two faces, a face whose embedding has a wrong length.
StoreImages == {Img(<<E2>>), Img(<<E2, E1>>), Img(<<EBad>>)}

\* Uploads for recognize_face: up to MaxFaces faces, or a wrong-length face.
QueryImages == {Img(fs) : fs \in FaceSeqs({E1, E2}, MaxFaces) \ {<< >>}}
                   \cup {Img(<<EBad>>)}

AddRequests ==
    {Request("add", u, n, f, 0) :
        u \in UserIds, n \in {"Bob", NoName}, f \in StoreImages}
      \cup {Request("add", "", "Bob", Img(<<E2>>), 0)}
      \cup {Request("add", "u1", "Bob", f, 0) : f \in FailingImages}

UpdateRequests ==
    {Request("update", u, n, f, 0) :
        u \in UserIds, n \in {"Bob", NoName}, f \in {NoFile, Img(<<E2>>)}}
      \cup {Request("update", u, NoName, Img(<<EBad>>), 0) : u \in UserIds}
      \cup {Request("update", "", "Bob", NoFile, 0)}
      \cup {Request("update", "u1", "Bob", f, 0) : f \in FailingImages}

ReadRequests ==
    {Request("get", u, NoName, NoFile, 0) : u \in UserIds}
        \cup {Request("count", "", NoName, NoFile, 0)}

DeleteRequests == {Request("delete", u, NoName, NoFile, 0) : u \in UserIds}

RecognizeRequests ==
    {Request("recognize", "", NoName, f, DefaultThreshold) :
        f \in QueryImages \cup FailingImages}

Requests == AddRequests \cup UpdateRequests \cup ReadRequests
                \cup DeleteRequests \cup RecognizeRequests

EmptyStore == Store({}, 1, 0)

\* The stores a behaviour may start from: empty, or with u1 registered.
InitStores == {EmptyStore, db_add_face(EmptyStore, "u1", E1, "Ann").store}

InitProcs ==
    /\ pc = [p \in Procs |-> "idle"]
    /\ req = [p \in Procs |-> NoReq]
    /\ loc = [p \in Procs |-> LocInit]
    /\ resp = [p \in Procs |-> NoResp]
    /\ calls = 0

InitFrom(stores) ==
    /\ \E st \in stores :
         /\ faces = st.faces
         /\ nextId = st.nextId
         /\ clock = st.clock
         /\ idLog = [k \in 1..(st.nextId - 1) |-> k]
         /\ faces0 = st.faces
    /\ log = << >>
    /\ InitProcs
    /\ live = LiveIdle(ScoreOne \div 2)

Init == InitFrom(InitStores)

Next ==
    \E p \in Procs :
        \/ CallFrom(p, Requests)
        \/ add_face(p)
        \/ get_face(p)
        \/ health_check(p)
        \/ delete_face(p)
        \/ update_face_check(p)
        \/ update_face_apply(p)
        \/ recognize_face_snapshot(p)
        \/ recognize_face_match(p)
        \/ Return(p)

Spec == Init /\ [][Next]_vars

---------------------------------------------------------------------------
(* Concurrent add_face calls only. *)

NextAdd ==
    \E p \in Procs :
        \/ CallFrom(p, AddRequests)
        \/ add_face(p)
        \/ ReturnLogged(p)

SpecAdd == Init /\ [][NextAdd]_vars

---------------------------------------------------------------------------
(* recognize_face over the stores of up to MaxRows rows. *)

UserSeq == <<"u1", "u2", "u3", "u4", "u5">>

\* A store after n adds: ids 1..n in order of registration, user k registered
\* first (up = TRUE) or last (up = FALSE), with embeddings embs.
StoreOf(embs, up) ==
    LET n == Len(embs)
    IN  Store({[id |-> k, user_id |-> UserSeq[IF up THEN k ELSE n + 1 - k],
                name |-> "Ann", embedding |-> embs[k], metadata |-> NoName,
                created_at |-> k, updated_at |-> k] : k \in 1..n},
              n + 1, n)

MatchStores ==
    {StoreOf(embs, up) : embs \in FaceSeqs(RichEmbeddings, MaxRows), up \in BOOLEAN}

MatchThresholds == {0, DefaultThreshold, (3 * SimOne) \div 5, SimOne}

MatchRequests ==
    {Request("recognize", "", NoName, Img(<<q>>), th) :
        q \in RichEmbeddings \cup {EBad}, th \in MatchThresholds}

InitMatch == InitFrom(MatchStores)

\* One request at a time: nothing else runs beside it.
NextMatch ==
    \E p \in {1} :
        \/ CallFrom(p, MatchRequests)
        \/ recognize_face_snapshot(p)
        \/ recognize_face_match(p)
        \/ Return(p)

SpecMatch == InitMatch /\ [][NextMatch]_vars

---------------------------------------------------------------------------
(* The anti_spoofing endpoint. *)

FusionThresholds == {ScoreOne \div 2, ScoreOne}

InitLive ==
    /\ faces = {} /\ nextId = 1 /\ clock = 0 /\ idLog = << >>
    /\ faces0 = {} /\ log = << >>
    /\ InitProcs
    /\ \E th \in FusionThresholds : live = LiveIdle(th)

NextLive ==
    \/ anti_spoofing_call
    \/ check_anti_spoofing
    \/ anti_spoofing_return

SpecLive == InitLive /\ [][NextLive]_vars

---------------------------------------------------------------------------
(* Properties *)

Done(p, op) == pc[p] = "done" /\ req[p].op = op

\* An add_face call that reaches the store with a record the store accepts
\* when the user_id is free: a user_id, a face, an embedding of the store's
\* length.
WellFormedAdd(r) ==
    /\ r.op = "add"
    /\ r.user_id # ""
    /\ r.file.kind = "image"
    /\ r.file.faces # << >>
    /\ Len(r.file.faces[1]) = Dim

\* The add_face calls answered so far: those in the history and those whose
\* response has not been collected yet.
AnsweredAdds ==
    {[n |-> k, req |-> log[k].req, resp |-> log[k].resp, kind |-> log[k].kind,
      unchanged |-> log[k].unchanged] : k \in 1..Len(log)}
      \cup {[n |-> 0 - p, req |-> req[p], resp |-> resp[p], kind |-> loc[p].kind,
              unchanged |-> (loc[p].after = loc[p].before)] :
               p \in {q \in Procs : Done(q, "add")}}

AddsFor(u) == {a \in AnsweredAdds : a.req.user_id = u /\ WellFormedAdd(a.req)}

\* C1: of the concurrent add_face calls that carry the same user_id, free
\* when they start, exactly one succeeds and every other one ends with
\* Conflict (409), in every interleaving; the record count rises by exactly
\* one per such user_id, and no state holds two live records of one user_id.
C1_ExactlyOneAddSucceeds ==
    /\ \A r1, r2 \in faces : r1.user_id = r2.user_id => r1 = r2
    /\ \A u \in UserIds :
         ~HasUser(faces0, u) /\ AddsFor(u) # {} =>
            LET ok == {a \in AddsFor(u) : a.resp.code = 200 /\ a.resp.success}
            IN  /\ Cardinality(ok) = 1
                /\ \A a \in AddsFor(u) \ ok : a.resp.code = 409
    /\ Cardinality(faces) =
         Cardinality(faces0)
           + Cardinality({u \in UserIds : ~HasUser(faces0, u) /\ AddsFor(u) # {}})

\* Three well-formed add_face calls for the free user_id u2 were answered, two
\* of them in flight together: one succeeded, two ended with Conflict.
C1_Witness ==
    /\ ~HasUser(faces0, "u2")
    /\ Cardinality(AddsFor("u2")) = 3
    /\ \A p \in Procs : Done(p, "add") /\ req[p].user_id = "u2" /\ WellFormedAdd(req[p])
    /\ Cardinality({a \in AddsFor("u2") : a.resp.code = 200}) = 1
    /\ Cardinality({a \in AddsFor("u2") : a.resp.code = 409}) = 2

\* The error kind a status code stands for.
ReportedKind(code) ==
    CASE code = 409 -> "Conflict"
      [] code = 404 -> "NotFound"
      [] code = 422 -> "ValidationError"
      [] OTHER -> "other"

\* C5: a failed add reports the kind of its cause: Conflict only when the
\* user_id has a live record, DimensionMismatch for an embedding of a wrong
\* length, ValidationError for an empty user_id; and no failure changes the
\* store.
C5_AddReportsCause ==
    \A a \in AnsweredAdds :
       a.kind \in {"Conflict", "DimensionMismatch", "ValidationError"} =>
          /\ ReportedKind(a.resp.code) = a.kind
          /\ a.unchanged

\* C2: an update applied to a user_id without a live record ends with
\* NotFound (404), also when the record was deleted after the handler's
\* existence check; it is never answered with a normal response.
C2_UpdateOfAbsentIsNotFound ==
    \A p \in Procs :
       Done(p, "update") /\ loc[p].kind = "NotFound" => resp[p].code = 404


MatchSteps(p) == req[p].op = "recognize" /\ pc[p] \in {"recognize_match", "done"}

\* C3: a recognize request takes the store snapshot once, and the user_id,
\* similarity and is_match of every match it returns are those of matching
\* the face against the table as it was at the snapshot, whatever Add, Update
\* or Delete calls ran afterwards.
C3_OneSnapshotForAllFaces ==
    \A p \in Procs :
       MatchSteps(p) =>
          /\ loc[p].snapCalls <= 1
          /\ \A k \in 1..Len(loc[p].matches) :
                LET m == loc[p].matches[k]
                    expect == recognize(req[p].file.faces[k],
                                        db_get_all_embeddings(loc[p].snapTbl),
                                        req[p].threshold)
                IN  /\ loc[p].snapCalls = 1
                    /\ m.user_id = expect.user_id
                    /\ m.similarity = expect.similarity
                    /\ m.is_match = expect.is_match

\* A request returned two matches, the table changed between the snapshot and
\* the second match, and matching against the changed table would have named
\* another user.
C3_Witness ==
    \E p \in Procs :
       /\ Done(p, "recognize")
       /\ Len(loc[p].matches) = 2
       /\ loc[p].lookTbl[2] # loc[p].snapTbl
       /\ loc[p].lookTbl[2] # {}
       /\ recognize(req[p].file.faces[2], db_get_all_embeddings(loc[p].lookTbl[2]),
                    req[p].threshold).user_id # loc[p].matches[2].user_id

\* C10 as claimed: the name reported with a match is the name the matched
\* record had when the snapshot was taken.
C10_NameOfSnapshot ==
    \A p \in Procs :
       MatchSteps(p) =>
          \A k \in 1..Len(loc[p].matches) :
             \E r \in loc[p].snapTbl :
                /\ r.user_id = loc[p].matches[k].user_id
                /\ r.name = loc[p].matches[k].name

\* C10, amended: every match describes a record of the request's snapshot, and
\* the name reported with it is the name the live record of that user_id has
\* when the handler looks it up after the match (db.get_face), none when the
\* user_id has no live record then.
C10_NameOfLookup ==
    \A p \in Procs :
       MatchSteps(p) =>
          \A k \in 1..Len(loc[p].matches) :
             LET m == loc[p].matches[k]
                 t == loc[p].lookTbl[k]
             IN  /\ \E r \in loc[p].snapTbl : r.user_id = m.user_id
                 /\ IF \E r \in t : r.user_id = m.user_id
                    THEN \E r \in t : r.user_id = m.user_id /\ r.name = m.name
                    ELSE m.name = NoName

\* A match names a record that was renamed between the snapshot and the name
\* lookup: the new name is reported.
C10_Witness ==
    \E p \in Procs :
       /\ Done(p, "recognize")
       /\ \E k \in 1..Len(loc[p].matches) :
             /\ \E r \in loc[p].snapTbl : r.user_id = loc[p].matches[k].user_id
                                          /\ r.name = "Ann"
             /\ loc[p].matches[k].name = "Bob"


\* new is the complete post-state of the update request r applied to old:
\* every supplied field overwritten, every other field kept, updated_at later.
FullUpdate(old, new, r) ==
    /\ new.id = old.id
    /\ new.user_id = old.user_id
    /\ new.metadata = old.metadata
    /\ new.created_at = old.created_at
    /\ new.name = (IF r.name = NoName THEN old.name ELSE r.name)
    /\ new.embedding = (IF r.file.kind = "none" THEN old.embedding ELSE r.file.faces[1])
    /\ new.updated_at > old.updated_at

\* A step changes a row only by a complete update of it.
RowsChangeWhole ==
    \A old \in faces : \A new \in faces' :
       old.id = new.id /\ old # new =>
          \E p \in Procs :
             /\ pc[p] = "update_apply" /\ pc'[p] = "done"
             /\ req[p].user_id = old.user_id
             /\ FullUpdate(old, new, req[p])

\* A read returns what the table holds at the step of the read: Get the
\* user_id's row or nothing, Count the number of rows, ListEmbeddings the
\* (user_id, embedding) of every row, the k-th being the row with k-1 rows of
\* lower id.
ReadsSeeTable ==
    \A p \in Procs :
       /\ pc[p] = "get" /\ pc'[p] = "done" =>
             IF \E r \in faces : r.user_id = req[p].user_id
             THEN resp'[p].body \in faces /\ resp'[p].body.user_id = req[p].user_id
             ELSE resp'[p].body = NoRow
       /\ pc[p] = "count" /\ pc'[p] = "done" =>
             resp'[p].body = Cardinality(faces)
       /\ pc[p] = "recognize" /\ loc'[p].snapCalls = 1 =>
             LET s == loc'[p].snapshot
             IN  /\ Len(s) = Cardinality(faces)
                 /\ \A k \in 1..Len(s) :
                       \E r \in faces :
                          /\ s[k] = [user_id |-> r.user_id, embedding |-> r.embedding]
                          /\ Cardinality({x \in faces : x.id < r.id}) = k - 1

\* C6: a read never observes a torn write: the table a read sees changes a
\* row only from its state before an Update to its complete state after it,
\* and Get, Count and ListEmbeddings return the table of one single moment,
\* ListEmbeddings in ascending id order.
C6_NoTornRead == [][RowsChangeWhole /\ ReadsSeeTable]_vars

\* A Get answered beside an Update of the same record returned the record's
\* complete state after the Update, which differs from its state before.
C6_Witness ==
    \E p, q \in Procs :
       /\ Done(p, "update") /\ resp[p].success
       /\ Done(q, "get") /\ req[q].user_id = req[p].user_id
       /\ loc[p].post # loc[p].pre
       /\ resp[q].body = loc[p].post
       /\ loc[p].post.name = "Bob" /\ loc[p].pre.name = "Ann"
       /\ loc[p].post.embedding # loc[p].pre.embedding

\* C8: a successful update changes only the fields supplied: id, user_id,
\* metadata and created_at never, the name only when one is given, the
\* embedding only when an image is given; updated_at grows strictly in every
\* successful update, also when neither is given.
C8_UpdateChangesOnlySupplied ==
    \A p \in Procs :
       Done(p, "update") /\ resp[p].code = 200 /\ resp[p].success =>
          LET pre == loc[p].pre
              post == loc[p].post
              r == req[p]
          IN  /\ pre # NoRow /\ post # NoRow
              /\ post.id = pre.id
              /\ post.user_id = pre.user_id
              /\ post.metadata = pre.metadata
              /\ post.created_at = pre.created_at
              /\ r.name = NoName => post.name = pre.name
              /\ r.name # NoName => post.name = r.name
              /\ r.file.kind = "none" => post.embedding = pre.embedding
              /\ r.file.kind # "none" => post.embedding = r.file.faces[1]
              /\ post.updated_at > pre.updated_at
              /\ loc[p].after \ {post} = loc[p].before \ {pre}

\* Two updates were answered: one with only a name, which changed the name and
\* kept the embedding, and one with neither field, which only advanced
\* updated_at.
C8_Witness ==
    \E p, q \in Procs :
       /\ Done(p, "update") /\ resp[p].success
       /\ req[p].file.kind = "none" /\ req[p].name = "Bob"
       /\ loc[p].pre.name = "Ann" /\ loc[p].post.name = "Bob"
       /\ loc[p].post.embedding = loc[p].pre.embedding
       /\ Done(q, "update") /\ resp[q].success
       /\ req[q].file.kind = "none" /\ req[q].name = NoName
       /\ loc[q].post.updated_at > loc[q].pre.updated_at

\* C9: on a user_id without a live record (deleted, or never added) Get
\* returns nothing in a normal response and Delete ends with NotFound (404); a
\* successful Delete leaves the user_id without a record; an Add of such a
\* user_id succeeds, and the ids the store assigns grow strictly, so none is
\* assigned twice.
C9_DeleteFreesUserId ==
    /\ \A p \in Procs :
          /\ Done(p, "delete") /\ resp[p].code = 200 =>
                HasUser(loc[p].before, req[p].user_id)
                   /\ ~HasUser(loc[p].after, req[p].user_id)
          /\ Done(p, "delete") /\ ~HasUser(loc[p].before, req[p].user_id) =>
                resp[p].code = 404
          /\ Done(p, "get") /\ ~HasUser(loc[p].before, req[p].user_id) =>
                resp[p] = Resp(200, FALSE, NoRow)
          /\ Done(p, "add") /\ WellFormedAdd(req[p])
                /\ ~HasUser(loc[p].before, req[p].user_id) =>
                /\ resp[p].code = 200
                /\ loc[p].post # NoRow
                /\ loc[p].post.id = resp[p].body
                /\ \A r \in loc[p].before : r.id < resp[p].body
                /\ \E k \in 1..Len(idLog) : idLog[k] = resp[p].body
    /\ \A j, k \in 1..Len(idLog) : j < k => idLog[j] < idLog[k]
    /\ \A r \in faces : \E k \in 1..Len(idLog) : idLog[k] = r.id

\* u1, registered with id 1 at the start, was deleted; a second Delete of it
\* ended with NotFound; then it was added again and got id 2.
C9_Witness ==
    /\ HasUser(faces0, "u1")
    /\ idLog = <<1, 2>>
    /\ \E p, q \in Procs :
          /\ Done(p, "delete") /\ req[p].user_id = "u1" /\ resp[p].code = 404
          /\ Done(q, "add") /\ req[q].user_id = "u1" /\ resp[q].code = 200
          /\ resp[q].body = 2
          /\ faces = {loc[q].post}


\* C7: for a non-empty snapshot a recognize request with one face returns the
\* candidate of maximal similarity, among equals the one of lowest id, with
\* is_match true exactly when that similarity is at least the threshold (so
\* also when it equals the threshold); for an empty snapshot it returns no
\* match and no error.
C7_BestMatchLowestId ==
    \A p \in Procs :
       Done(p, "recognize") /\ Len(req[p].file.faces[1]) = Dim =>
          LET q == req[p].file.faces[1]
              th == req[p].threshold
          IN  /\ resp[p].code = 200
              /\ faces = {} => resp[p].body = << >>
              /\ faces # {} =>
                    /\ Len(resp[p].body) = 1
                    /\ \E r \in faces :
                          /\ resp[p].body[1].user_id = r.user_id
                          /\ resp[p].body[1].similarity = Similarity(q, r.embedding)
                          /\ \A x \in faces :
                                \/ Similarity(q, x.embedding) < Similarity(q, r.embedding)
                                \/ /\ Similarity(q, x.embedding) = Similarity(q, r.embedding)
                                   /\ r.id <= x.id
                          /\ resp[p].body[1].is_match = (Similarity(q, r.embedding) >= th)

\* Two candidates are equally and maximally similar to the query, the one
\* registered first is u2, the similarity equals the threshold, which is not
\* the default one: u2 is returned, as a match.
C7_Witness ==
    \E p \in Procs :
       /\ Done(p, "recognize")
       /\ Cardinality(faces) = 2
       /\ \A r \in faces :
             Similarity(req[p].file.faces[1], r.embedding) = req[p].threshold
       /\ req[p].threshold = (3 * SimOne) \div 5
       /\ \E r \in faces : r.id = 1 /\ r.user_id = "u2"
       /\ Len(resp[p].body) = 1
       /\ resp[p].body[1].user_id = "u2"
       /\ resp[p].body[1].is_match

\* C4: when the reflection check is present with is_screen true, the fused
\* verdict is not live, whatever the other checks and the confidence are, and
\* the endpoint's response carries the fused verdict's is_live.
C4_ScreenIsNeverLive ==
    live.pc = "done" /\ live.kind = "image" =>
       /\ live.resp.is_live = live.result.is_live
       /\ ("reflection" \in DOMAIN live.checks /\ live.checks["reflection"].flag) =>
             ~live.result.is_live /\ ~live.resp.is_live

\* All four checks are present with the highest sub-scores and favourable
\* sub-verdicts, the reflection check says screen, the confidence clears the
\* threshold: the response is not live.
C4_Witness ==
    /\ live.pc = "done" /\ live.kind = "image"
    /\ DOMAIN live.checks = CheckNames
    /\ \A c \in CheckNames : live.checks[c].score = ScoreOne /\ live.checks[c].flag
    /\ live.resp.confidence = ScoreOne
    /\ live.resp.confidence >= live.threshold
    /\ ~live.resp.is_live

=============================================================================
